---- MODULE Spec2Model ----
(***************************************************************************)
(* Model of sol_transfer_monitor.py: the SolanaTransferMonitor poll loop,  *)
(* its transfer detector (parse_sol_transfer), the processed-signature     *)
(* set with its backing file, and the CSV ledger with its webhook.         *)
(***************************************************************************)
EXTENDS Integers, Sequences, FiniteSets, TLC

VARIABLES
    pc,                    \* position of the process in monitor_transfers
    wallet_idx,            \* index into all_wallets of the wallet being checked
    transactions,          \* signatures of the current listing not yet iterated
    signature,             \* local variable `signature` of the loop body
    tx_details,            \* local variable `tx_details` of the loop body
    transfer,              \* local variable `transfer` of the loop body
    processed_signatures,  \* self.processed_signatures (in memory)
    sigfile,               \* characters of processed_signatures.txt
    csv,                   \* rows of sol_transfers.csv, header included
    csv_exists,            \* os.path.exists("sol_transfers.csv")
    webhooks,              \* notification calls attempted, in order
    test_mode,             \* self.test_mode as monitor_transfers reads it
    test_counter,          \* self.test_counter
    webhook_outcome,       \* how the last notification call of this step ended
    restarts,              \* number of process restarts so far
    load_ok,               \* did load_processed_signatures of this process succeed
    loaded,                \* the set load_processed_signatures gave this process
    last_step,             \* history: what the last step of the process did
    marked_ever,           \* history: signatures ever passed to save_processed_signature
    written_ever,          \* history: signatures whose append to the file succeeded
    fetched_in_cycle,      \* history: signatures whose detail was requested this cycle
    failed_in_cycle        \* history: signatures whose detail request failed this cycle

vars == << pc, wallet_idx, transactions, signature, tx_details, transfer,
           processed_signatures, sigfile, csv, csv_exists, webhooks,
           test_mode, test_counter, webhook_outcome, restarts, load_ok,
           loaded, last_step, marked_ever, written_ever,
           fetched_in_cycle, failed_in_cycle >>

---------------------------------------------------------------------------
(* Bounds of the model *)

MaxAccounts == 3     \* longest account list given to the detector
MaxBalance == 2      \* balances are drawn from 0..MaxBalance
MaxListed == 2       \* longest listing returned by getSignaturesForAddress
MaxRestarts == 1     \* restarts of the process that are explored
MaxTestWebhooks == 2 \* test notifications that are explored
NumSignatures == 2   \* transaction signatures that exist upstream

---------------------------------------------------------------------------
(* Address registry *)

binance_wallet == "5tzFkiKscXHK5ZXCGbXZxdw7gTjjD1mBwuoFbhUvuAi9"

wintermute_wallets ==
    << "77DXFZnMebramt4dXfdwem1AjnfNnVnG8FkcVWpSwdjB",
       "ApQnTEGUNsKsM48AjFLy1yDukBwk8WgjorYe6KduVmnr",
       "44P5Ct5JkPz76Rs2K6juC65zXMpFRDrHatxcASJ4Dyra",
       "42nh6ig8ADj87iLpqtn7EzXk4yVg1X2LZtCJdaabHMEw",
       "4DTTpRo9BtATsVgxtiLtnFRLxiYGhCtuXrJ2njs2tgJC",
       "BFAcmjQFzvxL1xEejUHVUcnAqq5yWhmKUyh3uSeTRoCz" >>

all_wallets == << binance_wallet >> \o wintermute_wallets

Range(s) == { s[k] : k \in 1..Len(s) }

\* `x in self.wintermute_wallets`, `x in self.all_wallets`
InWintermute(a) == a \in Range(wintermute_wallets)
InAllWallets(a) == a \in Range(all_wallets)

\* An address outside the registry.
OtherAccount == "11111111111111111111111111111111"

---------------------------------------------------------------------------
(* Transaction payloads and detector results *)

\* The fixed divisor 1e9 that converts lamports to SOL.
LamportsPerSol == 1000000000

Abs(n) == IF n < 0 THEN -n ELSE n

\* Python truthiness of meta.get("err"): null is falsy, an error object truthy.
ErrValues == { "null", "InstructionError" }
Truthy(err) == err # "null"

\* The value None of get_transaction_details (also the result of
\* "result": null), as a payload record.
NoneDetails ==
    [ none |-> TRUE, meta |-> "absent", err |-> "null",
      has_accountKeys |-> FALSE, accountKeys |-> << >>,
      has_preBalances |-> FALSE, preBalances |-> << >>,
      has_postBalances |-> FALSE, postBalances |-> << >>,
      blockTime_key |-> "absent", blockTime |-> 0 ]

\* A complete payload of getTransaction: meta object with err, the account
\* list, both balance arrays and a block time.
Payload(keys, pre, post, err, bt) ==
    [ none |-> FALSE, meta |-> "object", err |-> err,
      has_accountKeys |-> TRUE, accountKeys |-> keys,
      has_preBalances |-> TRUE, preBalances |-> pre,
      has_postBalances |-> TRUE, postBalances |-> post,
      blockTime_key |-> "int", blockTime |-> bt ]

\* The value None returned by parse_sol_transfer.
NoneTransfer ==
    [ none |-> TRUE, signature |-> << >>, from_wallet |-> "", to_wallet |-> "",
      amount_sol |-> [ num |-> 0, den |-> LamportsPerSol ],
      timestamp_null |-> TRUE, timestamp |-> 0 ]

\* The dict returned by parse_sol_transfer on a match; amount_sol is the
\* quotient num/den, timestamp is tx_details["blockTime"] (possibly null).
TransferDict(sig, from, to, amount, tx) ==
    [ none |-> FALSE, signature |-> sig, from_wallet |-> from, to_wallet |-> to,
      amount_sol |-> amount,
      timestamp_null |-> (tx.blockTime_key = "null"),
      timestamp |-> tx.blockTime ]

---------------------------------------------------------------------------
(* parse_sol_transfer *)

\* `meta.get("err")` is truthy: the transaction failed.
FailedTransactionIgnored(tx) == FALSE
FailedTransaction(tx) == Truthy(tx.err)

\* `abs(balance_change) > 0`
BalanceChangedAlways(balance_change) == TRUE
BalanceChanged(balance_change) == Abs(balance_change) > 0

\* post_balances[k] - pre_balances[k] raises IndexError past either array.
IndexError(tx, k) == k > Len(tx.postBalances) \/ k > Len(tx.preBalances)
BalanceChange(tx, k) == tx.postBalances[k] - tx.preBalances[k]

\* The if/else that determines direction and amount from the sign of the
\* balance change of the outer account.
DirectionSwapped(account, other_account, balance_change) ==
    IF balance_change < 0
    THEN [ from_wallet |-> account, to_wallet |-> other_account,
           amount |-> [ num |-> Abs(balance_change), den |-> LamportsPerSol ] ]
    ELSE [ from_wallet |-> account, to_wallet |-> other_account,
           amount |-> [ num |-> balance_change, den |-> LamportsPerSol ] ]

Direction(account, other_account, balance_change) ==
    IF balance_change < 0
    THEN [ from_wallet |-> account, to_wallet |-> other_account,
           amount |-> [ num |-> Abs(balance_change), den |-> LamportsPerSol ] ]
    ELSE [ from_wallet |-> other_account, to_wallet |-> account,
           amount |-> [ num |-> balance_change, den |-> LamportsPerSol ] ]

\* "Check if this is a Binance <-> Wintermute transfer"
AnyRegistryPair(from_wallet, to_wallet) ==
    InAllWallets(from_wallet) /\ InAllWallets(to_wallet)

BinanceToWintermuteOnly(from_wallet, to_wallet) ==
    from_wallet = binance_wallet /\ InWintermute(to_wallet)

IsBinanceWintermute(from_wallet, to_wallet) ==
    \/ (from_wallet = binance_wallet /\ InWintermute(to_wallet))
    \/ (InWintermute(from_wallet) /\ to_wallet = binance_wallet)

\* The inner loop over other_account at index j for the outer account at
\* index i.  Result kinds: "return" (a dict is returned), "raise" (an
\* exception leaves the loops), "exhausted" (the inner loop ran to its end).
RECURSIVE InnerLoop(_, _, _, _, _)
InnerLoop(tx, sig, i, balance_change, j) ==
    IF j > Len(tx.accountKeys)
    THEN [ kind |-> "exhausted", value |-> NoneTransfer ]
    ELSE LET account == tx.accountKeys[i]
             other_account == tx.accountKeys[j]
         IN  IF InAllWallets(other_account) /\ other_account # account
             THEN IF IndexError(tx, j)
                  THEN [ kind |-> "raise", value |-> NoneTransfer ]
                  ELSE IF BalanceChanged(BalanceChange(tx, j))
                       THEN LET d == Direction(account, other_account, balance_change)
                            IN  IF IsBinanceWintermute(d.from_wallet, d.to_wallet)
                                THEN IF tx.blockTime_key = "absent"
                                     THEN [ kind |-> "raise", value |-> NoneTransfer ]
                                     ELSE [ kind |-> "return",
                                            value |-> TransferDict(sig, d.from_wallet,
                                                         d.to_wallet, d.amount, tx) ]
                                ELSE InnerLoop(tx, sig, i, balance_change, j + 1)
                       ELSE InnerLoop(tx, sig, i, balance_change, j + 1)
             ELSE InnerLoop(tx, sig, i, balance_change, j + 1)

\* The outer loop over account at index i; the value is what
\* parse_sol_transfer returns once the scan starts at i (an exception is
\* caught and turned into None).
RECURSIVE OuterLoop(_, _, _)
OuterLoop(tx, sig, i) ==
    IF i > Len(tx.accountKeys)
    THEN NoneTransfer
    ELSE IF InAllWallets(tx.accountKeys[i])
         THEN IF IndexError(tx, i)
              THEN NoneTransfer
              ELSE LET balance_change == BalanceChange(tx, i)
                   IN  IF BalanceChanged(balance_change)
                       THEN LET r == InnerLoop(tx, sig, i, balance_change, 1)
                            IN  CASE r.kind = "return" -> r.value
                                  [] r.kind = "raise" -> NoneTransfer
                                  [] r.kind = "exhausted" -> OuterLoop(tx, sig, i + 1)
                       ELSE OuterLoop(tx, sig, i + 1)
         ELSE OuterLoop(tx, sig, i + 1)

ScanFromSecondAccount(tx, sig) ==
    IF tx.none \/ tx.meta = "absent" THEN NoneTransfer
    ELSE IF tx.meta = "null" THEN NoneTransfer
    ELSE IF FailedTransaction(tx) THEN NoneTransfer
    ELSE IF ~tx.has_accountKeys THEN NoneTransfer
    ELSE IF ~tx.has_preBalances \/ ~tx.has_postBalances
         THEN NoneTransfer
    ELSE OuterLoop(tx, sig, 2)

parse_sol_transfer(tx, sig) ==
    IF tx.none \/ tx.meta = "absent" THEN NoneTransfer
    ELSE IF tx.meta = "null" THEN NoneTransfer            \* AttributeError
    ELSE IF FailedTransaction(tx) THEN NoneTransfer
    ELSE IF ~tx.has_accountKeys THEN NoneTransfer         \* KeyError
    ELSE IF ~tx.has_preBalances \/ ~tx.has_postBalances
         THEN NoneTransfer                                \* KeyError
    ELSE OuterLoop(tx, sig, 1)

---------------------------------------------------------------------------
(* Signatures and the processed-signatures file *)

\* Signatures are base58 strings; they are modelled as character sequences
\* so that the file format (one signature per line) is computed.
SigChars == << "A", "B", "C", "D" >>
Signatures == { << "5", SigChars[k] >> : k \in 1..NumSignatures }

\* Characters removed by str.strip().
Whitespace == { " ", "\t", "\n", "\r" }

RECURSIVE LStrip(_)
LStrip(s) == IF s # << >> /\ Head(s) \in Whitespace THEN LStrip(Tail(s)) ELSE s

RECURSIVE RStrip(_)
RStrip(s) ==
    IF s # << >> /\ s[Len(s)] \in Whitespace
    THEN RStrip(SubSeq(s, 1, Len(s) - 1))
    ELSE s

\* line.strip()
Strip(s) == RStrip(LStrip(s))

\* `for line in f`: the lines of a text file, each up to and including its
\* newline; cur is the line being collected.
RECURSIVE FileLines(_, _)
FileLines(chars, cur) ==
    IF chars = << >>
    THEN (IF cur = << >> THEN {} ELSE { cur })
    ELSE IF Head(chars) = "\n"
         THEN { Append(cur, "\n") } \cup FileLines(Tail(chars), << >>)
         ELSE FileLines(Tail(chars), Append(cur, Head(chars)))

\* load_processed_signatures: the set read from the file when reading
\* succeeds; when it raises, the set built by __init__ (empty) stays.
LoadWithoutStrip(chars, ok) ==
    IF ok THEN FileLines(chars, << >>) ELSE {}

load_processed_signatures(chars, ok) ==
    IF ok THEN { Strip(line) : line \in FileLines(chars, << >>) } ELSE {}

\* `signature in self.processed_signatures`
AlreadyProcessedNever(sig, processed) == FALSE
AlreadyProcessed(sig, processed) == sig \in processed

\* save_processed_signature: the in-memory add always happens; the append of
\* f"{signature}\n" to the file happens when the write succeeds.
NotSavedInMemory(sig, processed) == processed
SavedInMemory(sig, processed) == processed \cup { sig }
SavedWithoutNewline(sig, chars, ok) == IF ok THEN chars \o sig ELSE chars
SavedInFile(sig, chars, ok) == IF ok THEN chars \o sig \o << "\n" >> ELSE chars

---------------------------------------------------------------------------
(* The ledger (CSV) and the webhook *)

\* get_wallet_type
get_wallet_type(wallet_address) ==
    CASE wallet_address = "5tzFkiKscXHK5ZXCGbXZxdw7gTjjD1mBwuoFbhUvuAi9" -> "Binance Hot Wallet"
      [] wallet_address = "77DXFZnMebramt4dXfdwem1AjnfNnVnG8FkcVWpSwdjB" -> "Gate.io Deposit Wintermute"
      [] wallet_address = "ApQnTEGUNsKsM48AjFLy1yDukBwk8WgjorYe6KduVmnr" -> "Backpack Exchange Deposit Wintermute"
      [] wallet_address = "44P5Ct5JkPz76Rs2K6juC65zXMpFRDrHatxcASJ4Dyra" -> "Wintermute Hot Wallet"
      [] wallet_address = "42nh6ig8ADj87iLpqtn7EzXk4yVg1X2LZtCJdaabHMEw" -> "KuCoin Wintermute Deposit"
      [] wallet_address = "4DTTpRo9BtATsVgxtiLtnFRLxiYGhCtuXrJ2njs2tgJC" -> "OKX Deposit Wintermute"
      [] wallet_address = "BFAcmjQFzvxL1xEejUHVUcnAqq5yWhmKUyh3uSeTRoCz" -> "Bitvavo Wintermute"
      [] OTHER -> "Unknown Wallet"

\* The header row written by init_csv_file; a row is a record whose fields
\* are the eight columns, kind tells the header from a data row.
HeaderRow ==
    [ kind |-> "header", timestamp |-> << >>, unix_timestamp |-> 0,
      signature |-> << >>, from_wallet |-> "from_wallet", to_wallet |-> "to_wallet",
      amount_sol |-> 0, direction |-> "direction",
      wintermute_wallet_type |-> "wintermute_wallet_type" ]

\* dt.strftime("%Y-%m-%d %H:%M:%S UTC") of an epoch second below one minute.
FormatUTC(t) == << "1970-01-01 00:00:", t \div 10, t % 10, " UTC" >>

\* f"{amount:.6f}" and round(amount, 6): the amount in millionths of a SOL,
\* rounded to the nearest (an amount exactly halfway between two millionths
\* is rounded by its binary representation in the code and is not drawn
\* here).
MicroSol(amount) == (amount.num + 500) \div 1000

\* "Determine direction" of save_transfer.
LabelOfRecipient(t) ==
    IF t.from_wallet = binance_wallet
    THEN [ direction |-> "Binance_to_Wintermute",
           wintermute_wallet |-> get_wallet_type(t.to_wallet) ]
    ELSE [ direction |-> "Wintermute_to_Binance",
           wintermute_wallet |-> get_wallet_type(t.to_wallet) ]

SaveDirection(t) ==
    IF t.from_wallet = binance_wallet
    THEN [ direction |-> "Binance_to_Wintermute",
           wintermute_wallet |-> get_wallet_type(t.to_wallet) ]
    ELSE [ direction |-> "Wintermute_to_Binance",
           wintermute_wallet |-> get_wallet_type(t.from_wallet) ]

\* The row save_transfer writes for a transfer dict.
CsvRow(t) ==
    [ kind |-> "data", timestamp |-> FormatUTC(t.timestamp),
      unix_timestamp |-> t.timestamp, signature |-> t.signature,
      from_wallet |-> t.from_wallet, to_wallet |-> t.to_wallet,
      amount_sol |-> MicroSol(t.amount_sol),
      direction |-> SaveDirection(t).direction,
      wintermute_wallet_type |-> SaveDirection(t).wintermute_wallet ]

\* The notification send_webhook attempts; its payload has no "test_mode"
\* key, which the field test_mode records as FALSE.
WebhookCall(t) ==
    [ signature |-> t.signature,
      from_wallet_name |-> get_wallet_type(t.from_wallet),
      to_wallet_name |-> get_wallet_type(t.to_wallet),
      amount_sol |-> MicroSol(t.amount_sol),
      direction |-> SaveDirection(t).direction,
      wintermute_wallet |-> SaveDirection(t).wintermute_wallet,
      alert_level |-> IF MicroSol(t.amount_sol) >= 1000 * 1000000
                      THEN "MEGA_WHALE" ELSE "WHALE",
      test_mode |-> FALSE ]

\* The notification log after save_transfer: send_webhook is called after
\* the row has been written, inside the same try, so an exception before
\* or in the write skips the call.
NotifiedAlways(calls, t, appended) == Append(calls, WebhookCall(t))
NotifiedAfter(calls, t, appended) ==
    IF appended THEN Append(calls, WebhookCall(t)) ELSE calls

\* str(self.test_counter) of a counter below ten.
CounterText(n) == << "0", "1", "2", "3", "4", "5", "6", "7", "8", "9" >>[n + 1]

\* test_transfers[n % 2] of send_test_webhook once the counter has become
\* n, as the notification posted: amounts in millionths of a SOL.
TestWebhookCall(n) ==
    IF n % 2 = 0
    THEN [ signature |-> << "TEST_SIGNATURE_", CounterText(n) >>,
           from_wallet_name |-> "Binance Hot Wallet",
           to_wallet_name |-> "KuCoin Wintermute Deposit",
           amount_sol |-> 750500000 + n * 10000000,
           direction |-> "Binance_to_Wintermute",
           wintermute_wallet |-> "KuCoin Wintermute Deposit",
           alert_level |-> IF 750500000 + n * 10000000 >= 1000 * 1000000
                           THEN "MEGA_WHALE" ELSE "WHALE",
           test_mode |-> TRUE ]
    ELSE [ signature |-> << "TEST_SIGNATURE_MEGA_", CounterText(n) >>,
           from_wallet_name |-> "Binance Hot Wallet",
           to_wallet_name |-> "OKX Deposit Wintermute",
           amount_sol |-> 1250000000 + n * 50000000,
           direction |-> "Binance_to_Wintermute",
           wintermute_wallet |-> "OKX Deposit Wintermute",
           alert_level |-> IF 1250000000 + n * 50000000 >= 1000 * 1000000
                           THEN "MEGA_WHALE" ELSE "WHALE",
           test_mode |-> TRUE ]

\* send_test_webhook: the counter is incremented and one test notification
\* is posted to the webhook URL; neither the ledger nor the processed
\* signatures are touched.
send_test_webhook(calls, counter) ==
    [ test_counter |-> counter + 1,
      webhooks |-> Append(calls, TestWebhookCall(counter + 1)) ]

\* k calls of send_test_webhook one after the other.
RECURSIVE TestWebhooksSent(_, _, _)
TestWebhooksSent(calls, counter, k) ==
    IF k = 0
    THEN [ test_counter |-> counter, webhooks |-> calls ]
    ELSE send_test_webhook(TestWebhooksSent(calls, counter, k - 1).webhooks,
                           TestWebhooksSent(calls, counter, k - 1).test_counter)

\* Notifications of send_webhook, in the order they were attempted, and
\* the number of test notifications of send_test_webhook.
IsTransferCall(call) == ~call.test_mode
TransferCalls == SelectSeq(webhooks, IsTransferCall)
TestCalls == Len(webhooks) - Len(TransferCalls)

\* Outcomes of requests.post in send_webhook that send_webhook survives:
\* status 200, another status, or a requests exception (timeout included).
WebhookOutcomes == { "200", "non200", "exception" }

\* Every way requests.post can end; "interrupted" is a KeyboardInterrupt
\* raised while the call blocks.
RequestOutcomes == WebhookOutcomes \cup { "interrupted" }

\* Does the outcome leave send_webhook and save_transfer as an exception?
\* Their `except Exception` clauses catch everything but KeyboardInterrupt.
FailurePropagates(outcome) == outcome # "200"
WebhookPropagates(outcome) == outcome = "interrupted"

---------------------------------------------------------------------------
(* What the RPC node can answer *)

W1 == wintermute_wallets[1]
W2 == wintermute_wallets[2]

BlockTime == 7

\* A source-to-target transfer of 2 lamports, the payload the incomplete
\* ones below are cut from.
SourceToTarget ==
    Payload(<< binance_wallet, W1 >>, << 2, 0 >>, << 0, 2 >>, "null", BlockTime)

\* Payloads getTransaction returns to the poll loop: a transfer, a
\* transaction that is no transfer, a failed transaction, a payload without
\* meta, one with a null block time and one whose balance arrays are
\* shorter than the account list.
PollPayloads ==
    { SourceToTarget,
      Payload(<< binance_wallet, OtherAccount >>, << 2, 0 >>, << 0, 2 >>, "null", BlockTime),
      [ SourceToTarget EXCEPT !.err = "InstructionError" ],
      [ SourceToTarget EXCEPT !.meta = "absent" ],
      [ SourceToTarget EXCEPT !.blockTime_key = "null", !.blockTime = 0 ],
      [ SourceToTarget EXCEPT !.accountKeys = << binance_wallet, W1, OtherAccount >> ] }

\* Further incomplete payloads: meta null, no account list, a balance array
\* missing, no block time, one balance array that ends before a registry
\* account or after the account list.
IncompletePayloads ==
    { [ SourceToTarget EXCEPT !.meta = "null" ],
      [ SourceToTarget EXCEPT !.has_accountKeys = FALSE, !.accountKeys = << >> ],
      [ SourceToTarget EXCEPT !.has_preBalances = FALSE, !.preBalances = << >> ],
      [ SourceToTarget EXCEPT !.has_postBalances = FALSE, !.postBalances = << >> ],
      [ SourceToTarget EXCEPT !.blockTime_key = "absent", !.blockTime = 0 ],
      [ SourceToTarget EXCEPT !.preBalances = << 2 >> ],
      [ SourceToTarget EXCEPT !.postBalances = << 0 >> ],
      [ SourceToTarget EXCEPT !.postBalances = << 0, 2, 5 >> ] }

\* Sequences without repetition of at most n elements of S.
RECURSIVE Listings(_, _)
Listings(S, n) ==
    IF n = 0 THEN { << >> }
    ELSE { << >> } \cup
         UNION { { << x >> \o l : l \in Listings(S \ { x }, n - 1) } : x \in S }

---------------------------------------------------------------------------
(* Payloads given to the detector *)

Addresses == { binance_wallet, W1, W2, OtherAccount }

\* Pre/post balance pairs of one account: every change from -MaxBalance to
\* +MaxBalance occurs.
BalancePairs ==
    { p \in (0..MaxBalance) \X (0..MaxBalance) : p[1] = 0 \/ p[2] = 0 }

\* Account lists of length n with a balance pair per account.
AccountRows(n) == [ 1..n -> Addresses \X BalancePairs ]

WithoutLast(s) == IF s = << >> THEN s ELSE SubSeq(s, 1, Len(s) - 1)

\* The payload with account list and balance arrays taken from rows, in one
\* of the shapes: complete, failed, block time missing, or the balance
\* arrays one entry short of the account list.
PayloadShapes ==
    { "complete", "failed", "blockTime_absent", "balances_short" }

ShapedPayload(rows, shape) ==
    LET n == Len(rows)
        keys == [ k \in 1..n |-> rows[k][1] ]
        pre == [ k \in 1..n |-> rows[k][2][1] ]
        post == [ k \in 1..n |-> rows[k][2][2] ]
        full == Payload(keys, pre, post, "null", BlockTime)
    IN  CASE shape = "complete" -> full
          [] shape = "failed" -> [ full EXCEPT !.err = "InstructionError" ]
          [] shape = "blockTime_absent" ->
                [ full EXCEPT !.blockTime_key = "absent", !.blockTime = 0 ]
          [] shape = "balances_short" ->
                [ full EXCEPT !.preBalances = WithoutLast(pre),
                              !.postBalances = WithoutLast(post) ]

AllAccountRows == UNION { AccountRows(n) : n \in 0..MaxAccounts }

---------------------------------------------------------------------------
(* The process *)

\* State after SolanaTransferMonitor() in an empty directory, at the top of
\* the first cycle of monitor_transfers; test mode is off, as shipped.
Init ==
    /\ pc = "list"
    /\ wallet_idx = 1
    /\ transactions = << >>
    /\ signature = << >>
    /\ tx_details = NoneDetails
    /\ transfer = NoneTransfer
    /\ processed_signatures = {}
    /\ sigfile = << >>
    /\ csv = << HeaderRow >>
    /\ csv_exists = TRUE
    /\ webhooks = << >>
    /\ test_mode = FALSE
    /\ test_counter = 0
    /\ webhook_outcome = "none"
    /\ restarts = 0
    /\ load_ok = TRUE
    /\ loaded = {}
    /\ last_step = "constructed"
    /\ marked_ever = {}
    /\ written_ever = {}
    /\ fetched_in_cycle = {}
    /\ failed_in_cycle = {}

\* Where the loops continue once `rest` is what remains of the current
\* listing: the next transaction, the next wallet, or the sleep that ends
\* the cycle.
Continue(rest) ==
    /\ transactions' = rest
    /\ IF rest # << >>
       THEN pc' = "next_tx" /\ wallet_idx' = wallet_idx
       ELSE IF wallet_idx < Len(all_wallets)
            THEN pc' = "list" /\ wallet_idx' = wallet_idx + 1
            ELSE pc' = "sleep" /\ wallet_idx' = wallet_idx

\* The loop-body locals tx_details and transfer are read only inside the
\* iteration that assigned them; outside it they are kept unassigned.
BodyLocalsUnassigned ==
    /\ tx_details' = NoneDetails
    /\ transfer' = NoneTransfer
    /\ webhook_outcome' = "none"

\* get_wallet_transactions(wallet, limit=10): the listing, or [] when the
\* RPC call fails.
GetWalletTransactions ==
    /\ pc = "list"
    /\ \E listing \in Listings(Signatures, MaxListed) : Continue(listing)
    /\ last_step' = "listed"
    /\ signature' = << >>
    /\ BodyLocalsUnassigned
    /\ UNCHANGED << processed_signatures, sigfile, csv, csv_exists, webhooks,
                    test_mode, test_counter, restarts,
                    load_ok, loaded, marked_ever, written_ever, fetched_in_cycle, failed_in_cycle >>

\* The top of a cycle, before the first listing: in test mode
\* send_test_webhook is called when int(time.time()) % 120 < 90, which the
\* clock decides.  The number of calls is 0 or 1.
CycleStartTests ==
    IF test_mode /\ TestCalls < MaxTestWebhooks THEN { 0, 1 } ELSE { 0 }

\* Where an exception of the cycle leaves the poll loop: `except Exception`
\* keeps it in the loop, in the 30 second sleep before the next cycle.
EndsTheLoop == "stopped"
AfterCycleError == "retry"

\* get_wallet_transactions raises: a response whose "result" is null makes
\* len(transactions) raise TypeError, which no function below the poll loop
\* catches.  `except Exception` of the loop abandons the rest of the cycle.
ListingRaises ==
    /\ pc = "list"
    /\ pc' = AfterCycleError
    /\ wallet_idx' = 1
    /\ last_step' = "cycle_error"
    /\ signature' = << >>
    /\ BodyLocalsUnassigned
    /\ UNCHANGED << transactions, processed_signatures, sigfile, csv, csv_exists, webhooks,
                    test_mode, test_counter,
                    restarts, load_ok, loaded, marked_ever, written_ever,
                    fetched_in_cycle, failed_in_cycle >>

\* time.sleep(30) of the `except Exception` clause, then the top of the
\* next cycle.
SleepAfterError ==
    /\ pc = "retry"
    /\ pc' = "list"
    /\ fetched_in_cycle' = {}
    /\ failed_in_cycle' = {}
    /\ last_step' = "slept_after_error"
    /\ \E k \in CycleStartTests :
          /\ webhooks' = TestWebhooksSent(webhooks, test_counter, k).webhooks
          /\ test_counter' = TestWebhooksSent(webhooks, test_counter, k).test_counter
    /\ UNCHANGED << wallet_idx, transactions, signature, tx_details, transfer,
                    processed_signatures, sigfile, csv, csv_exists, test_mode,
                    webhook_outcome, restarts, load_ok, loaded, marked_ever,
                    written_ever >>

\* "Skip if already processed"
SkipProcessed ==
    /\ pc = "next_tx"
    /\ AlreadyProcessed(Head(transactions), processed_signatures)
    /\ signature' = Head(transactions)
    /\ Continue(Tail(transactions))
    /\ last_step' = "skipped"
    /\ BodyLocalsUnassigned
    /\ UNCHANGED << processed_signatures, sigfile, csv, csv_exists, webhooks,
                    test_mode, test_counter, restarts,
                    load_ok, loaded, marked_ever, written_ever, fetched_in_cycle, failed_in_cycle >>

\* `if not tx_details: continue`: the loop goes on with the transactions
\* after the one whose details could not be fetched.
RetryImmediately(txs) == txs
RestAfterFetchFailure(txs) == Tail(txs)

\* get_transaction_details(signature) for a signature that is not skipped:
\* None (timeout, HTTP error, RPC error, rate limit, "result": null) makes
\* the loop continue, a payload is handed to the detector.
GetTransactionDetails ==
    /\ pc = "next_tx"
    /\ ~AlreadyProcessed(Head(transactions), processed_signatures)
    /\ signature' = Head(transactions)
    /\ fetched_in_cycle' = fetched_in_cycle \cup { Head(transactions) }
    /\ \/ /\ tx_details' = NoneDetails
          /\ Continue(RestAfterFetchFailure(transactions))
          /\ failed_in_cycle' = failed_in_cycle \cup { Head(transactions) }
          /\ last_step' = "fetch_failed"
       \/ /\ tx_details' \in PollPayloads
          /\ pc' = "fetched"
          /\ last_step' = "fetched"
          /\ UNCHANGED << wallet_idx, transactions, failed_in_cycle >>
    /\ transfer' = NoneTransfer
    /\ webhook_outcome' = "none"
    /\ UNCHANGED << processed_signatures, sigfile, csv, csv_exists, webhooks,
                    test_mode, test_counter, restarts,
                    load_ok, loaded, marked_ever, written_ever >>

\* transfer = self.parse_sol_transfer(tx_details, signature)
ParseSolTransfer ==
    /\ pc = "fetched"
    /\ transfer' = parse_sol_transfer(tx_details, signature)
    /\ pc' = "parsed"
    /\ last_step' = "parsed"
    /\ UNCHANGED << wallet_idx, transactions, signature, tx_details,
                    processed_signatures, sigfile, csv, csv_exists, webhooks,
                    test_mode, test_counter, webhook_outcome,
                    restarts, load_ok, loaded, marked_ever, written_ever, fetched_in_cycle, failed_in_cycle >>

\* save_transfer(transfer): nothing is written when the timestamp cannot be
\* converted or the append raises; otherwise the row is appended (open in
\* mode "a" creates a ledger that does not exist) and the webhook is
\* attempted.
SaveTransferFails(t, csv_ok) == t.timestamp_null \/ ~csv_ok

\* save_processed_signature(signature) and the end of the loop body.
MarkProcessed(sig_ok) ==
    /\ processed_signatures' = SavedInMemory(signature, processed_signatures)
    /\ sigfile' = SavedInFile(signature, sigfile, sig_ok)
    /\ marked_ever' = marked_ever \cup { signature }
    /\ written_ever' = IF sig_ok THEN written_ever \cup { signature } ELSE written_ever
    /\ Continue(Tail(transactions))
    /\ last_step' = "marked"

\* `if transfer: self.save_transfer(transfer)` and then
\* `self.save_processed_signature(signature)`.
SaveAndMark ==
    /\ pc = "parsed"
    /\ \E sig_ok \in BOOLEAN :
          \/ /\ transfer.none
             /\ UNCHANGED << csv, csv_exists, webhooks, webhook_outcome >>
             /\ MarkProcessed(sig_ok)
          \/ /\ ~transfer.none
             /\ \E csv_ok \in BOOLEAN :
                   /\ SaveTransferFails(transfer, csv_ok)
                   /\ webhooks' = NotifiedAfter(webhooks, transfer, FALSE)
                   /\ UNCHANGED << csv, csv_exists, webhook_outcome >>
                   /\ MarkProcessed(sig_ok)
          \/ /\ ~transfer.none
             /\ ~SaveTransferFails(transfer, TRUE)
             /\ csv' = Append(csv, CsvRow(transfer))
             /\ csv_exists' = TRUE
             /\ webhooks' = NotifiedAfter(webhooks, transfer, TRUE)
             /\ webhook_outcome' \in
                   { o \in RequestOutcomes : ~WebhookPropagates(o) }
             /\ MarkProcessed(sig_ok)
    /\ UNCHANGED << signature, tx_details, transfer, test_mode, test_counter,
                    restarts, load_ok, loaded, fetched_in_cycle,
                    failed_in_cycle >>

\* The process ends: everything it held in memory is gone, the files stay.
ProcessExits ==
    /\ pc' = "stopped"
    /\ wallet_idx' = 1
    /\ transactions' = << >>
    /\ signature' = << >>
    /\ tx_details' = NoneDetails
    /\ transfer' = NoneTransfer
    /\ processed_signatures' = {}
    /\ test_counter' = 0
    /\ fetched_in_cycle' = {}
    /\ failed_in_cycle' = {}
    /\ UNCHANGED << sigfile, test_mode, restarts, load_ok, loaded, marked_ever,
                    written_ever >>

\* KeyboardInterrupt while requests.post of send_webhook blocks: the row is
\* already appended, the exception leaves save_transfer and the loop body,
\* and `except KeyboardInterrupt: break` ends the loop.
InterruptInWebhook ==
    /\ pc = "parsed"
    /\ ~transfer.none
    /\ ~SaveTransferFails(transfer, TRUE)
    /\ csv' = Append(csv, CsvRow(transfer))
    /\ csv_exists' = TRUE
    /\ webhooks' = Append(webhooks, WebhookCall(transfer))
    /\ webhook_outcome' \in { o \in RequestOutcomes : WebhookPropagates(o) }
    /\ last_step' = "interrupted_in_webhook"
    /\ ProcessExits

\* time.sleep(90) and the top of the next cycle.
Sleep ==
    /\ pc = "sleep"
    /\ pc' = "list"
    /\ wallet_idx' = 1
    /\ fetched_in_cycle' = {}
    /\ failed_in_cycle' = {}
    /\ last_step' = "slept"
    /\ signature' = << >>
    /\ BodyLocalsUnassigned
    /\ \E k \in CycleStartTests :
          /\ webhooks' = TestWebhooksSent(webhooks, test_counter, k).webhooks
          /\ test_counter' = TestWebhooksSent(webhooks, test_counter, k).test_counter
    /\ UNCHANGED << transactions, processed_signatures, sigfile, csv, csv_exists,
                    test_mode, restarts, load_ok, loaded, marked_ever,
                    written_ever >>

\* How far the end of the loop body (save_transfer, then
\* save_processed_signature) has come when an interrupt ends it before the
\* signature is written: nothing is written yet (also when there is no
\* transfer or when save_transfer has failed), the row is appended and the
\* notification is not yet attempted, or the row is appended and
\* send_webhook has returned.
InterruptPoints(t) ==
    IF t.none \/ SaveTransferFails(t, TRUE)
    THEN { "before_append" }
    ELSE { "before_append", "after_append", "after_webhook" }

\* `except KeyboardInterrupt: break`.  The interrupt is a signal and
\* arrives at any statement of the cycle: in the listing (pc "list"), at
\* the dedup check or in the detail call ("next_tx"), before the detector
\* runs ("fetched"), in the end of the loop body ("parsed") or in
\* time.sleep(90); raised in time.sleep(30) of the `except Exception`
\* clause it ends the process uncaught.  In test mode it can also arrive
\* after the sleep, while requests.post of send_test_webhook blocks at the
\* top of the next cycle: `except Exception` of send_test_webhook lets it
\* pass, the test notification has been attempted.  The `except Exception`
\* clauses of save_transfer and save_processed_signature let it pass too,
\* and the `with` block of save_transfer closes the ledger with the row
\* that has been written.  When the interrupt arrives after send_webhook
\* has returned, requests.post has ended in one of the outcomes send_webhook
\* survives.
KeyboardInterrupt ==
    /\ pc \in { "list", "next_tx", "fetched", "parsed", "sleep", "retry" }
    /\ \E k \in IF pc \in { "sleep", "retry" } THEN CycleStartTests ELSE { 0 },
          point \in IF pc = "parsed" THEN InterruptPoints(transfer)
                                     ELSE { "before_append" } :
          /\ csv' = IF point = "before_append"
                    THEN csv ELSE Append(csv, CsvRow(transfer))
          /\ csv_exists' = (csv_exists \/ point # "before_append")
          /\ webhooks' = IF point = "after_webhook"
                         THEN Append(webhooks, WebhookCall(transfer))
                         ELSE TestWebhooksSent(webhooks, test_counter, k).webhooks
          /\ last_step' =
                CASE k = 1 -> "interrupted_in_test_webhook"
                  [] pc = "list" -> "interrupted_in_listing"
                  [] pc = "next_tx" /\ AlreadyProcessed(Head(transactions),
                                                        processed_signatures)
                        -> "interrupted_in_skip"
                  [] pc = "next_tx" -> "interrupted_in_fetch"
                  [] pc = "fetched" -> "interrupted_in_parse"
                  [] pc = "parsed" -> "interrupted_in_save"
                  [] OTHER -> "interrupted_in_sleep"
          /\ webhook_outcome' \in
                IF point = "after_webhook"
                THEN { o \in RequestOutcomes : ~WebhookPropagates(o) }
                ELSE { "none" }
    /\ ProcessExits

\* How writing the header can end: the header is written; open(..., "w")
\* raises, and no file is created; open succeeds and the write of the row
\* raises, and the file it has created stays behind, empty.
InitCsvOutcomes == { "written", "open_raises", "write_raises" }

\* init_csv_file: a ledger that exists is left alone, whatever it holds; a
\* ledger that does not exist is created with the header row.  The result
\* is the ledger the call leaves on the disk.
init_csv_file(exists, rows, outcome) ==
    IF exists
    THEN [ exists |-> TRUE, rows |-> rows ]
    ELSE CASE outcome = "written" -> [ exists |-> TRUE, rows |-> << HeaderRow >> ]
           [] outcome = "write_raises" -> [ exists |-> TRUE, rows |-> << >> ]
           [] OTHER -> [ exists |-> FALSE, rows |-> << >> ]

\* init_csv_file has no try: the exception leaves __init__.
InitCsvFileRaises(exists, outcome) == ~exists /\ outcome # "written"

\* Test notifications between __init__ and the first listing: none when
\* test mode is off; in test mode the initial one of monitor_transfers and
\* then the one at the top of the first cycle when the clock says so.
StartTests ==
    IF test_mode
    THEN { k \in { 1, 2 } : TestCalls + k <= MaxTestWebhooks }
    ELSE { 0 }

\* Where a KeyboardInterrupt can end main() before the poll loop.  main(),
\* __init__ and the lines of monitor_transfers above `while True` are
\* outside the try of the loop, so the interrupt ends the process there:
\* before init_csv_file has opened the ledger, inside init_csv_file between
\* open(..., "w") and the write of the header, or after init_csv_file has
\* returned.
StartupInterruptPoints ==
    { "before_init_csv_file", "in_init_csv_file", "after_init_csv_file" }

\* The ledger a startup leaves on the disk when it is interrupted at
\* `point`: untouched before init_csv_file; inside it the file that open
\* has created stays behind empty, as after a failed write; after it the
\* ledger is as init_csv_file leaves it.
LedgerAtInterrupt(exists, rows, point) ==
    CASE point = "before_init_csv_file" -> [ exists |-> exists, rows |-> rows ]
      [] point = "in_init_csv_file" -> init_csv_file(exists, rows, "write_raises")
      [] OTHER -> init_csv_file(exists, rows, "written")

\* main(): SolanaTransferMonitor() loads the processed signatures (reading
\* may fail) and initialises the ledger, then monitor_transfers starts its
\* first cycle; an exception out of __init__ ends the process before that,
\* and so does a KeyboardInterrupt that arrives during the startup or while
\* the last of the test notifications is being posted.  A process that
\* ends in its startup has used nothing of what it has loaded.
Main ==
    /\ \/ \E point \in StartupInterruptPoints :
             /\ csv' = LedgerAtInterrupt(csv_exists, csv, point).rows
             /\ csv_exists' = LedgerAtInterrupt(csv_exists, csv, point).exists
             /\ load_ok' = TRUE
             /\ loaded' = {}
             /\ pc' = "stopped"
             /\ last_step' = "interrupted_in_startup"
             /\ processed_signatures' = {}
             /\ test_counter' = 0
             /\ webhooks' = webhooks
       \/ \E ok \in BOOLEAN, outcome \in InitCsvOutcomes :
             /\ (sigfile = << >> => ok)
             /\ (csv_exists => outcome = "written")
             /\ load_ok' = ok
             /\ loaded' = load_processed_signatures(sigfile, ok)
             /\ csv' = init_csv_file(csv_exists, csv, outcome).rows
             /\ csv_exists' = init_csv_file(csv_exists, csv, outcome).exists
             /\ IF InitCsvFileRaises(csv_exists, outcome)
                THEN /\ pc' = "crashed"
                     /\ last_step' = "init_csv_file_raised"
                     /\ processed_signatures' = {}
                     /\ test_counter' = 0
                     /\ webhooks' = webhooks
                ELSE \E k \in StartTests, interrupted \in BOOLEAN :
                     /\ (interrupted => k >= 1)
                     /\ webhooks' = TestWebhooksSent(webhooks, 0, k).webhooks
                     /\ IF interrupted
                        THEN /\ pc' = "stopped"
                             /\ last_step' = "interrupted_in_test_webhook"
                             /\ processed_signatures' = {}
                             /\ test_counter' = 0
                        ELSE /\ pc' = "list"
                             /\ last_step' = "constructed"
                             /\ processed_signatures' = load_processed_signatures(sigfile, ok)
                             /\ test_counter' = TestWebhooksSent(webhooks, 0, k).test_counter
    /\ webhook_outcome' = "none"
    /\ UNCHANGED << wallet_idx, transactions, signature, tx_details, transfer,
                    sigfile, test_mode, marked_ever, written_ever,
                    fetched_in_cycle, failed_in_cycle >>

\* main() in a directory where it has not run before.
Start ==
    /\ pc = "not_started"
    /\ UNCHANGED restarts
    /\ Main

\* main() again after the process has ended.
Restart ==
    /\ pc \in { "stopped", "crashed" }
    /\ restarts < MaxRestarts
    /\ restarts' = restarts + 1
    /\ Main

\* One process: the poll loop until it is interrupted.
NextProcess ==
    \/ GetWalletTransactions
    \/ ListingRaises
    \/ SleepAfterError
    \/ SkipProcessed
    \/ GetTransactionDetails
    \/ ParseSolTransfer
    \/ SaveAndMark
    \/ InterruptInWebhook
    \/ Sleep
    \/ KeyboardInterrupt

Next == NextProcess \/ Restart

Spec == Init /\ [][Next]_vars

SpecProcess == Init /\ [][NextProcess]_vars

\* Before main() has ever run: no ledger, no processed-signatures file.
\* self.test_mode is what __init__ assigns, False, and nothing assigns it
\* again: the calls of send_test_webhook are never reached.
InitStartup ==
    /\ pc = "not_started"
    /\ wallet_idx = 1
    /\ transactions = << >>
    /\ signature = << >>
    /\ tx_details = NoneDetails
    /\ transfer = NoneTransfer
    /\ processed_signatures = {}
    /\ sigfile = << >>
    /\ csv = << >>
    /\ csv_exists = FALSE
    /\ webhooks = << >>
    /\ test_mode = FALSE
    /\ test_counter = 0
    /\ webhook_outcome = "none"
    /\ restarts = 0
    /\ load_ok = TRUE
    /\ loaded = {}
    /\ last_step = "not_started"
    /\ marked_ever = {}
    /\ written_ever = {}
    /\ fetched_in_cycle = {}
    /\ failed_in_cycle = {}

NextStartup == Start \/ Next

\* Startups, cycles and restarts from the very first start.
SpecStartup == InitStartup /\ [][NextStartup]_vars

---------------------------------------------------------------------------
(* The detector on arbitrary payloads *)

\* The first process has listed a signature under the first wallet and
\* get_transaction_details has returned a payload for it.
InitFetched ==
    /\ pc = "fetched"
    /\ wallet_idx = 1
    /\ signature = << "5", SigChars[1] >>
    /\ transactions = << signature >>
    /\ \/ tx_details \in PollPayloads \cup IncompletePayloads
       \/ \E rows \in AllAccountRows, shape \in PayloadShapes :
             tx_details = ShapedPayload(rows, shape)
    /\ transfer = NoneTransfer
    /\ processed_signatures = {}
    /\ sigfile = << >>
    /\ csv = << HeaderRow >>
    /\ csv_exists = TRUE
    /\ webhooks = << >>
    /\ test_mode = FALSE
    /\ test_counter = 0
    /\ webhook_outcome = "none"
    /\ restarts = 0
    /\ load_ok = TRUE
    /\ loaded = {}
    /\ last_step = "fetched"
    /\ marked_ever = {}
    /\ written_ever = {}
    /\ fetched_in_cycle = { signature }
    /\ failed_in_cycle = {}

\* parse_sol_transfer alone.
NextDetector == ParseSolTransfer

SpecDetector == InitFetched /\ [][NextDetector]_vars

\* The loop from the moment a payload has arrived.
SpecFetched == InitFetched /\ [][NextProcess]_vars


---------------------------------------------------------------------------
(* Vocabulary of the properties *)

SourceAddress == binance_wallet
TargetAddresses == { wintermute_wallets[k] : k \in 1..Len(wintermute_wallets) }
RegistryAddresses == { SourceAddress } \cup TargetAddresses

\* The transaction succeeded: meta is present and carries no error.
Successful(tx) == ~tx.none /\ tx.meta = "object" /\ tx.err = "null"

\* The transaction carries the failure flag.
HasFailureFlag(tx) == ~tx.none /\ tx.meta = "object" /\ tx.err # "null"

\* The payload has every part the detector reads, with one balance entry
\* per account.
Complete(tx) ==
    /\ ~tx.none /\ tx.meta = "object"
    /\ tx.has_accountKeys /\ tx.has_preBalances /\ tx.has_postBalances
    /\ Len(tx.preBalances) = Len(tx.accountKeys)
    /\ Len(tx.postBalances) = Len(tx.accountKeys)
    /\ tx.blockTime_key # "absent"

\* A malformed or incomplete payload: meta, the account list, a balance
\* array or the block time is missing, or the arrays differ in length.
Malformed(tx) ==
    \/ tx.none \/ tx.meta # "object"
    \/ ~tx.has_accountKeys \/ ~tx.has_preBalances \/ ~tx.has_postBalances
    \/ Len(tx.preBalances) # Len(tx.accountKeys)
    \/ Len(tx.postBalances) # Len(tx.accountKeys)
    \/ tx.blockTime_key = "absent"

\* Indices of the account list that have a balance delta.
Indexed(tx) ==
    { k \in 1..Len(tx.accountKeys) :
        k <= Len(tx.preBalances) /\ k <= Len(tx.postBalances) }
Delta(tx, k) == tx.postBalances[k] - tx.preBalances[k]

\* Indices of registry accounts with a nonzero delta.
ActiveRegistry(tx) ==
    { k \in Indexed(tx) : tx.accountKeys[k] \in RegistryAddresses /\ Delta(tx, k) # 0 }
SourceActive(tx) == \E k \in ActiveRegistry(tx) : tx.accountKeys[k] = SourceAddress
TargetActive(tx) == \E k \in ActiveRegistry(tx) : tx.accountKeys[k] \in TargetAddresses

\* Data rows of the ledger that carry signature sig.
LedgerRows(sig) ==
    { k \in 1..Len(csv) : csv[k].kind = "data" /\ csv[k].signature = sig }

\* Signatures whose line is in the processed-signatures file.
DurablyWritten ==
    { sig \in Signatures : (sig \o << "\n" >>) \in FileLines(sigfile, << >>) }

---------------------------------------------------------------------------
(* C1 *)

\* C1: within one process the ledger never holds two records with the same
\* transaction signature; a signature listed again, in a later cycle or
\* under another wallet of the same cycle, is skipped.
C1_OneRecordPerSignature ==
    \A sig \in Signatures : Cardinality(LedgerRows(sig)) <= 1

\* A recorded signature is listed again in the cycle that recorded it and
\* is skipped.
C1_Witness ==
    /\ last_step = "skipped"
    /\ signature \in fetched_in_cycle
    /\ Cardinality(LedgerRows(signature)) = 1

---------------------------------------------------------------------------
(* C2 *)

\* C2 as stated: the detector is never run on a signature that has been
\* marked processed before, restarts included.
C2_NeverReevaluated ==
    [][ (pc = "fetched" /\ pc' = "parsed") => signature \notin marked_ever ]_vars

\* C2 amended: the detector runs only on signatures outside the in-memory
\* set; that set never loses a member while the process lives, it receives
\* every signature the loop body finishes with, and in a process whose load
\* succeeded it contains every signature whose line is in the file.
C2_NeverReevaluatedWhileKnown ==
    /\ [](pc \in { "fetched", "parsed" } => signature \notin processed_signatures)
    /\ []((pc # "stopped" /\ load_ok) => DurablyWritten \subseteq processed_signatures)
    /\ [][ /\ (pc' # "stopped" /\ pc # "stopped"
                 => processed_signatures \subseteq processed_signatures')
           /\ (pc = "parsed" /\ pc' # "stopped"
                 => signature \in processed_signatures') ]_vars

\* After a restart a signature that was loaded from the file is listed and
\* skipped.
C2_Witness ==
    /\ restarts >= 1
    /\ load_ok
    /\ last_step = "skipped"
    /\ signature \in loaded

---------------------------------------------------------------------------
(* C3 *)

\* C3: a successful, complete transaction whose only two active registry
\* accounts are the source and a target with deltas -d and +d yields an
\* event of amount d/divisor from the negative-delta account to the
\* positive-delta account, whichever of the two pays and whichever comes
\* first.
C3_Precondition(tx, i, j) ==
    /\ Successful(tx) /\ Complete(tx)
    /\ i # j
    /\ tx.accountKeys[i] = SourceAddress
    /\ tx.accountKeys[j] \in TargetAddresses
    /\ Delta(tx, i) = -Delta(tx, j)
    /\ ActiveRegistry(tx) = { i, j }

C3_TwoPartyTransfer ==
    pc = "parsed" =>
      \A i, j \in 1..Len(tx_details.accountKeys) :
        C3_Precondition(tx_details, i, j) =>
          LET neg == IF Delta(tx_details, i) < 0 THEN i ELSE j
              pos == IF Delta(tx_details, i) < 0 THEN j ELSE i
          IN  /\ ~transfer.none
              /\ transfer.amount_sol =
                    [ num |-> Abs(Delta(tx_details, i)), den |-> LamportsPerSol ]
              /\ transfer.from_wallet = tx_details.accountKeys[neg]
              /\ transfer.to_wallet = tx_details.accountKeys[pos]

\* The target pays the source and the source comes first in the list.
C3_Witness ==
    /\ pc = "parsed"
    /\ \E i, j \in 1..Len(tx_details.accountKeys) :
          /\ C3_Precondition(tx_details, i, j)
          /\ i < j
          /\ Delta(tx_details, i) > 0
    /\ ~transfer.none

---------------------------------------------------------------------------
(* C4 *)

\* C4: every event the detector returns has a positive amount, a sender
\* that differs from the recipient, and exactly one of the two is the
\* source address while the other is a target address.
C4_EventInvariant ==
    (pc = "parsed" /\ ~transfer.none) =>
      /\ transfer.amount_sol.num > 0
      /\ transfer.amount_sol.den > 0
      /\ transfer.from_wallet # transfer.to_wallet
      /\ Cardinality({ transfer.from_wallet, transfer.to_wallet }
                        \cap { SourceAddress }) = 1
      /\ ({ transfer.from_wallet, transfer.to_wallet } \ { SourceAddress })
            \subseteq TargetAddresses

\* An event out of a transaction with three active registry accounts.
C4_Witness ==
    /\ pc = "parsed"
    /\ ~transfer.none
    /\ Cardinality(ActiveRegistry(tx_details)) = 3
    /\ transfer.to_wallet = SourceAddress

---------------------------------------------------------------------------
(* C5 *)

\* C5: a transaction with the failure flag yields no event whatever its
\* accounts and balances are, the loop body still marks its signature
\* processed and writes no ledger record for it, and a signature in the
\* processed set is never handed to the detector by that process.
C5_FailedTransaction ==
    /\ (pc = "parsed" /\ HasFailureFlag(tx_details)) => transfer.none
    /\ (last_step = "marked" /\ HasFailureFlag(tx_details)) =>
          /\ signature \in processed_signatures
          /\ LedgerRows(signature) = {}
    /\ pc \in { "fetched", "parsed" } => signature \notin processed_signatures

\* A failed transaction whose balances look like a source-to-target
\* transfer has been marked processed.
C5_Witness ==
    /\ last_step = "marked"
    /\ HasFailureFlag(tx_details)
    /\ SourceActive(tx_details) /\ TargetActive(tx_details)
    /\ signature \in processed_signatures

---------------------------------------------------------------------------
(* C6 *)

\* C6: the detector returns no event unless the source address and at
\* least one target address are both present with a nonzero delta.
C6_NoEventWithoutBothSides ==
    (pc = "parsed" /\ ~(SourceActive(tx_details) /\ TargetActive(tx_details)))
      => transfer.none

\* Two different targets with opposite nonzero deltas and no active source.
C6_Witness ==
    /\ pc = "parsed"
    /\ Successful(tx_details) /\ Complete(tx_details)
    /\ ~SourceActive(tx_details)
    /\ \E i, j \in ActiveRegistry(tx_details) :
          /\ tx_details.accountKeys[i] # tx_details.accountKeys[j]
          /\ Delta(tx_details, i) < 0 /\ Delta(tx_details, j) > 0
    /\ transfer.none

---------------------------------------------------------------------------
(* C7 *)

\* C7: in every event the sender is an account with a negative balance
\* delta, for every combination of signs of the two deltas.
C7_SenderLost ==
    (pc = "parsed" /\ ~transfer.none) =>
      \E k \in ActiveRegistry(tx_details) :
        /\ tx_details.accountKeys[k] = transfer.from_wallet
        /\ Delta(tx_details, k) < 0

---------------------------------------------------------------------------
(* C8 *)

\* C8: in every event the amount is the absolute delta of the sender
\* account over the divisor, whichever account comes first and also when
\* the two deltas differ in magnitude.
C8_AmountOfSender ==
    (pc = "parsed" /\ ~transfer.none) =>
      \E k \in ActiveRegistry(tx_details) :
        /\ tx_details.accountKeys[k] = transfer.from_wallet
        /\ transfer.amount_sol =
              [ num |-> Abs(Delta(tx_details, k)), den |-> LamportsPerSol ]

---------------------------------------------------------------------------
(* C9 *)

\* C9: once a payload has arrived the loop body marks the signature
\* processed whatever the detector returns, and for a malformed or
\* incomplete payload the detector returns no event.
C9_MarkedWhateverTheOutcome ==
    /\ last_step = "marked" => signature \in processed_signatures
    /\ ((pc = "parsed" \/ last_step = "marked") /\ Malformed(tx_details))
          => transfer.none

---------------------------------------------------------------------------
(* C10 *)

\* The step is a detail fetch of the signature at the head of the listing.
C10_FetchStep ==
    /\ pc = "next_tx"
    /\ last_step' \in { "fetched", "fetch_failed" }

\* A failed fetch leaves the signature unmarked, and an unmarked signature
\* at the head of the listing is fetched.
C10_RetriedWhenListed ==
    /\ [](last_step = "fetch_failed" => signature \notin processed_signatures)
    /\ [][ (pc = "next_tx" /\ pc' # "stopped"
              /\ Head(transactions) \notin processed_signatures)
            => (C10_FetchStep /\ signature' = Head(transactions)) ]_vars

\* C10 as stated: in addition no signature has its details fetched twice in
\* one cycle, also when it is listed under several wallets.
C10_OneFetchPerCycle ==
    /\ C10_RetriedWhenListed
    /\ [][ C10_FetchStep => Head(transactions) \notin fetched_in_cycle ]_vars

\* C10 amended: a failed fetch is not repeated for the listed occurrence
\* that caused it, the loop goes on with the rest of the listing; the
\* signature stays unmarked and is fetched again at its next listed
\* occurrence, in the same cycle under another wallet or in a later cycle.
C10_OneFetchPerOccurrence ==
    /\ C10_RetriedWhenListed
    /\ [][ (C10_FetchStep /\ last_step' = "fetch_failed")
            => (pc' = "next_tx" => transactions' = Tail(transactions)) ]_vars
    /\ [][ (C10_FetchStep /\ last_step' = "fetch_failed")
            => (pc' # "next_tx" => Len(transactions) = 1) ]_vars

\* A signature whose fetch failed earlier in the cycle is fetched again in
\* the same cycle, under a later wallet.
C10_Witness ==
    /\ last_step = "fetched"
    /\ signature \in failed_in_cycle
    /\ wallet_idx > 1

---------------------------------------------------------------------------
(* C11 *)

\* The step attempts a notification and send_webhook returns: status 200,
\* another status, or a requests exception (a timeout is one).
C11_NotificationStep ==
    /\ pc = "parsed"
    /\ webhook_outcome' \in WebhookOutcomes

\* The step is ended by an interrupt that arrives in the end of the loop
\* body, after send_webhook has returned and before the signature is marked.
C11_InterruptedAfterNotification ==
    /\ C11_NotificationStep
    /\ last_step' = "interrupted_in_save"

\* C11 as stated: whatever the outcome of the notification call, the step
\* that attempts it has appended the record of the transfer to the ledger
\* as it was, marks the signature and continues the loop; once a
\* notification has been attempted the ledger ends with the one record of
\* its signature (also when the call is interrupted), and the step after
\* the notification neither removes nor repeats that record.
C11_LedgerIndependentOfNotification ==
    /\ [][ C11_NotificationStep =>
             /\ csv' = Append(csv, CsvRow(transfer))
             /\ webhooks' = Append(webhooks, WebhookCall(transfer))
             /\ signature \in processed_signatures'
             /\ pc' \in { "next_tx", "list", "sleep" } ]_vars
    /\ [](webhook_outcome \in RequestOutcomes =>
             /\ csv[Len(csv)].kind = "data"
             /\ csv[Len(csv)].signature = webhooks[Len(webhooks)].signature
             /\ Cardinality(LedgerRows(webhooks[Len(webhooks)].signature)) = 1)
    /\ [][ (webhook_outcome \in WebhookOutcomes) =>
             (\A sig \in Signatures :
                 (sig = signature) => (LedgerRows(sig)' = LedgerRows(sig))) ]_vars

\* C11 amended: whatever the outcome of the notification call, the step
\* that attempts it has appended the record of the transfer to the ledger
\* as it was, and then marks the signature and continues the loop, unless
\* an interrupt arrives after the call has returned and before the
\* signature is marked: then the process stops with the record appended
\* and the signature neither marked nor written, whatever the outcome was.
\* Once a notification has been attempted the ledger ends with the one
\* record of its signature, and the step after the notification neither
\* removes nor repeats that record.
C11_LedgerIndependentUnlessInterrupted ==
    /\ [][ C11_NotificationStep =>
             /\ csv' = Append(csv, CsvRow(transfer))
             /\ webhooks' = Append(webhooks, WebhookCall(transfer))
             /\ IF C11_InterruptedAfterNotification
                THEN /\ pc' = "stopped"
                     /\ sigfile' = sigfile
                     /\ marked_ever' = marked_ever
                ELSE /\ signature \in processed_signatures'
                     /\ signature \in marked_ever'
                     /\ pc' \in { "next_tx", "list", "sleep" } ]_vars
    /\ [](webhook_outcome \in RequestOutcomes =>
             /\ csv[Len(csv)].kind = "data"
             /\ csv[Len(csv)].signature = webhooks[Len(webhooks)].signature
             /\ Cardinality(LedgerRows(webhooks[Len(webhooks)].signature)) = 1)
    /\ [][ (webhook_outcome \in WebhookOutcomes) =>
             (\A sig \in Signatures :
                 (sig = signature) => (LedgerRows(sig)' = LedgerRows(sig))) ]_vars

\* A first transfer has been recorded, notified and marked; the
\* notification of a second one has ended in an exception and an interrupt
\* has stopped the process before its signature was marked: both records
\* are in the ledger once.
C11_Witness ==
    /\ pc = "stopped"
    /\ last_step = "interrupted_in_save"
    /\ webhook_outcome = "exception"
    /\ Len(webhooks) = 2
    /\ webhooks[1].signature \in written_ever
    /\ webhooks[2].signature \notin marked_ever
    /\ \A k \in 1..2 : Cardinality(LedgerRows(webhooks[k].signature)) = 1

---------------------------------------------------------------------------
(* C12 *)

\* The process is running: constructed and not ended.
Running == pc \notin { "not_started", "stopped", "crashed" }

\* C12 as stated: a signature passed to save_processed_signature is
\* contained in the set, and after a restart every signature marked before
\* is contained in the set rebuilt from the file.
C12_ContainmentAcrossRestart ==
    /\ last_step = "marked" => AlreadyProcessed(signature, processed_signatures)
    /\ (restarts >= 1 /\ Running) => marked_ever \subseteq processed_signatures

\* C12 amended: a signature passed to save_processed_signature is contained
\* in the set; reading the file back gives exactly the signatures whose
\* append succeeded, so a restarted process whose read succeeded contains
\* every one of them; and marking a signature that is already in the set
\* or in the file changes neither the set nor what the file reads back to.
C12_ContainmentOfWritten ==
    /\ last_step = "marked" => AlreadyProcessed(signature, processed_signatures)
    /\ load_processed_signatures(sigfile, TRUE) = written_ever
    /\ (restarts >= 1 /\ Running /\ load_ok) => written_ever \subseteq processed_signatures
    /\ \A sig \in processed_signatures :
          SavedInMemory(sig, processed_signatures) = processed_signatures
    /\ \A sig \in Signatures :
          load_processed_signatures(SavedInFile(sig, sigfile, TRUE), TRUE)
             = load_processed_signatures(sigfile, TRUE) \cup { sig }

\* A restarted process has read the file: it contains the signature whose
\* append succeeded and misses the one whose append failed.
C12_Witness ==
    /\ restarts >= 1
    /\ last_step = "constructed"
    /\ load_ok
    /\ written_ever # {}
    /\ written_ever \subseteq processed_signatures
    /\ marked_ever \ written_ever # {}
    /\ (marked_ever \ written_ever) \cap processed_signatures = {}

---------------------------------------------------------------------------
(* C13 *)

\* The member of the target group among sender and recipient of an event.
C13_TargetMember(t) ==
    CHOOSE a \in { t.from_wallet, t.to_wallet } : a \in TargetAddresses

\* The direction label and the counterpart label fit the event.
C13_Labelled(t, direction, label) ==
    /\ direction \in { "Binance_to_Wintermute", "Wintermute_to_Binance" }
    /\ (direction = "Binance_to_Wintermute") <=> (t.from_wallet = SourceAddress)
    /\ (direction = "Wintermute_to_Binance") <=> (t.to_wallet = SourceAddress)
    /\ label = get_wallet_type(C13_TargetMember(t))
    /\ label \notin { "Binance Hot Wallet", "Unknown Wallet" }

\* C13: for every event the detector returns, save_transfer determines
\* Binance_to_Wintermute exactly when the sender is the source address and
\* Wintermute_to_Binance exactly when the recipient is, with the label of
\* the target-group member as counterpart label; the ledger record and the
\* notification it writes carry these two values.
C13_DirectionLabels ==
    /\ (pc = "parsed" /\ ~transfer.none) =>
          C13_Labelled(transfer, SaveDirection(transfer).direction,
                       SaveDirection(transfer).wintermute_wallet)
    /\ (webhook_outcome \in RequestOutcomes /\ ~transfer.none) =>
          /\ C13_Labelled(transfer, csv[Len(csv)].direction,
                          csv[Len(csv)].wintermute_wallet_type)
          /\ C13_Labelled(transfer, webhooks[Len(webhooks)].direction,
                          webhooks[Len(webhooks)].wintermute_wallet)

\* A transfer from a target to the source has been written to the ledger.
C13_Witness ==
    /\ last_step = "marked"
    /\ webhook_outcome \in WebhookOutcomes
    /\ transfer.to_wallet = SourceAddress
    /\ csv[Len(csv)].signature = signature
    /\ csv[Len(csv)].direction = "Wintermute_to_Binance"
    /\ csv[Len(csv)].wintermute_wallet_type = get_wallet_type(transfer.from_wallet)

---------------------------------------------------------------------------
(* C14 *)

\* Data rows of the ledger, in the order they were appended.
IsDataRow(row) == row.kind = "data"
DataRows == SelectSeq(csv, IsDataRow)

\* The step ends the process.
C14_Stops == Running /\ pc' \in { "stopped", "crashed" }

\* Every row of the ledger before the step is the same row after it.
LedgerKept ==
    /\ Len(csv') >= Len(csv)
    /\ \A k \in 1..Len(csv) : csv'[k] = csv[k]

\* C14 as stated: the poll loop stops only between cycles, that is while
\* it sleeps after the last registry address, and a stop leaves the
\* processed signatures and the ledger records as they are.
C14_StopsBetweenCycles ==
    [][ C14_Stops =>
          /\ pc \in { "sleep", "retry" }
          /\ sigfile' = sigfile
          /\ LedgerKept ]_vars

\* What the last step of a process is when an interrupt has ended it.
InterruptSteps ==
    { "interrupted_in_listing", "interrupted_in_skip", "interrupted_in_fetch",
      "interrupted_in_parse", "interrupted_in_save", "interrupted_in_webhook",
      "interrupted_in_sleep", "interrupted_in_test_webhook",
      "interrupted_in_startup" }

\* C14 amended: the poll loop stops wherever the interrupt arrives, between
\* cycles or at any statement in the middle of one, and then the rest of
\* the cycle is not run; a stop is always an interrupt, and it leaves the
\* lines of the processed-signatures file and the rows of the ledger
\* written before it as they are.  A stop in the end of a loop body can
\* leave the record of the transfer in the ledger, with or without its
\* notification, while the signature is not marked.
C14_StopsWhereInterrupted ==
    /\ [][ C14_Stops =>
             /\ last_step' \in InterruptSteps
             /\ sigfile' = sigfile
             /\ written_ever' = written_ever
             /\ LedgerKept
             /\ (csv' # csv =>
                   /\ pc = "parsed"
                   /\ ~transfer.none
                   /\ csv' = Append(csv, CsvRow(transfer)))
             /\ (TransferCalls' # TransferCalls =>
                   /\ csv' # csv
                   /\ webhooks' = Append(webhooks, WebhookCall(transfer))) ]_vars
    /\ [](last_step \in InterruptSteps => pc = "stopped")

\* The loop has stopped in the end of a loop body, after an earlier
\* signature of the process had been marked and written: the record of
\* the interrupted transfer is in the ledger without a notification.
C14_Witness ==
    /\ pc = "stopped"
    /\ last_step = "interrupted_in_save"
    /\ written_ever # {}
    /\ written_ever # Signatures
    /\ Len(DataRows) > Len(TransferCalls)
    /\ \E k \in 1..Len(csv) :
          csv[k].kind = "data" /\ csv[k].signature \notin written_ever

---------------------------------------------------------------------------
(* C15 *)

\* C15: no error stops the monitor.  Whatever has failed (an RPC call, a
\* payload, a write of the ledger or of the processed-signatures file, a
\* notification, an exception of the cycle), the process has ended only if
\* an external interrupt ended it; after every other event the poll loop
\* is running towards its next cycle.
C15_OnlyInterruptStops ==
    /\ pc \in { "stopped", "crashed" } => last_step \in InterruptSteps
    /\ last_step \in { "constructed", "init_csv_file_raised", "listed",
                        "cycle_error", "slept_after_error", "skipped",
                        "fetch_failed", "fetched", "parsed", "marked", "slept" }
          => Running

---------------------------------------------------------------------------
(* C16 *)

\* The step is save_processed_signature with a failed append to the file.
C16_FailedWrite ==
    /\ pc = "parsed"
    /\ last_step' = "marked"
    /\ sigfile' = sigfile

\* Within a process: a failed append still puts the signature in the
\* in-memory set, and the detector only sees signatures outside that set.
C16_MarkedInMemory ==
    /\ [][ C16_FailedWrite => signature \in processed_signatures' ]_vars
    /\ [](pc \in { "fetched", "parsed" } => signature \notin processed_signatures)

\* C16 as stated: in addition, after a restart every signature whose
\* append succeeded stays skipped, so only those whose append failed can
\* be evaluated again.
C16_OnlyFailedWritesReevaluated ==
    /\ C16_MarkedInMemory
    /\ []((restarts >= 1 /\ pc \in { "fetched", "parsed" })
             => signature \notin written_ever)

\* C16 amended: after a restart whose read of the file succeeded every
\* signature whose append succeeded stays skipped, so only those whose
\* append failed can be evaluated again; a restart whose read failed
\* starts from the empty set and can evaluate every signature again.
C16_ReevaluatedAfterReadableRestart ==
    /\ C16_MarkedInMemory
    /\ []((restarts >= 1 /\ load_ok /\ pc \in { "fetched", "parsed" })
             => signature \notin written_ever)
    /\ []((restarts >= 1 /\ Running /\ ~load_ok) => loaded = {})

\* After a restart that read the file, a signature whose append had failed
\* is evaluated again while another one, whose append succeeded, is known.
C16_Witness ==
    /\ restarts >= 1
    /\ load_ok
    /\ pc = "parsed"
    /\ signature \in marked_ever \ written_ever
    /\ written_ever # {}
    /\ written_ever \subseteq processed_signatures

---------------------------------------------------------------------------
(* C17 *)

\* (i, j) is a qualifying pair: both accounts are registry addresses with a
\* nonzero delta, the addresses differ, one is the source and the other a
\* target.
Qualifying(tx, i, j) ==
    /\ tx.accountKeys[i] # tx.accountKeys[j]
    /\ \/ (tx.accountKeys[i] = SourceAddress /\ tx.accountKeys[j] \in TargetAddresses)
       \/ (tx.accountKeys[j] = SourceAddress /\ tx.accountKeys[i] \in TargetAddresses)
    /\ i \in Indexed(tx) /\ Delta(tx, i) # 0
    /\ j \in Indexed(tx) /\ Delta(tx, j) # 0

\* (i, j) is the first qualifying pair in account-list order: smallest
\* outer index i, and for that i the smallest j.
FirstQualifying(tx, i, j) ==
    /\ Qualifying(tx, i, j)
    /\ \A k \in 1..i, l \in 1..Len(tx.accountKeys) :
          (k < i \/ l < j) => ~Qualifying(tx, k, l)

\* The event t is built from the accounts at i and j: they are its two
\* parties, the outer one sends when its delta is negative and receives
\* otherwise, and the amount is the magnitude of the outer delta.
BuiltFrom(t, tx, i, j) ==
    /\ ~t.none
    /\ t.amount_sol = [ num |-> Abs(Delta(tx, i)), den |-> LamportsPerSol ]
    /\ IF Delta(tx, i) < 0
       THEN t.from_wallet = tx.accountKeys[i] /\ t.to_wallet = tx.accountKeys[j]
       ELSE t.from_wallet = tx.accountKeys[j] /\ t.to_wallet = tx.accountKeys[i]

\* C17: for a successful, complete transaction the event the detector
\* returns is built from the first qualifying pair in account-list order,
\* however many registry accounts are active; a later qualifying pair never
\* overrides it, and an address that occurs twice is matched at its first
\* occurrence that qualifies.
C17_FirstQualifyingPair ==
    (pc = "parsed" /\ Successful(tx_details) /\ Complete(tx_details)) =>
      \A i, j \in 1..Len(tx_details.accountKeys) :
        FirstQualifying(tx_details, i, j) => BuiltFrom(transfer, tx_details, i, j)

\* Three active registry accounts: the first qualifying pair is followed by
\* a qualifying pair that would give another event.
C17_Witness ==
    /\ pc = "parsed"
    /\ Successful(tx_details) /\ Complete(tx_details)
    /\ Cardinality(ActiveRegistry(tx_details)) = 3
    /\ \E i, j, k, l \in 1..Len(tx_details.accountKeys) :
          /\ FirstQualifying(tx_details, i, j)
          /\ Qualifying(tx_details, k, l)
          /\ BuiltFrom(transfer, tx_details, i, j)
          /\ ~BuiltFrom(transfer, tx_details, k, l)

---------------------------------------------------------------------------
(* C18 *)

\* C18: for a successful, complete transaction in which the source address
\* and at least one target address have a nonzero delta the detector
\* returns an event, wherever these accounts stand in the account list; it
\* returns None only when no pair of active registry accounts qualifies.
C18_ScanComplete ==
    (pc = "parsed" /\ Successful(tx_details) /\ Complete(tx_details)) =>
      /\ (SourceActive(tx_details) /\ TargetActive(tx_details)) => ~transfer.none
      /\ transfer.none =>
            \A i, j \in ActiveRegistry(tx_details) : ~Qualifying(tx_details, i, j)

\* Two different active targets come first in the account list, the active
\* source comes last, and an event is returned.
C18_Witness ==
    /\ pc = "parsed"
    /\ Successful(tx_details) /\ Complete(tx_details)
    /\ Len(tx_details.accountKeys) = 3
    /\ ActiveRegistry(tx_details) = { 1, 2, 3 }
    /\ tx_details.accountKeys[1] \in TargetAddresses
    /\ tx_details.accountKeys[2] \in TargetAddresses
    /\ tx_details.accountKeys[1] # tx_details.accountKeys[2]
    /\ tx_details.accountKeys[3] = SourceAddress
    /\ ~transfer.none

---------------------------------------------------------------------------
(* C19 *)

\* The step writes a header row.
C19_WritesHeader ==
    /\ csv' # csv
    /\ csv'[Len(csv')].kind = "header"

\* C19: over startups, cycles and restarts every step keeps the rows of
\* the ledger and at most adds rows after them; a ledger that holds rows
\* starts with the header row and has no other header row; the header is
\* written only by a startup that finds no ledger file, and a running
\* process always has a ledger file.
C19_AppendOnlyLedger ==
    /\ [][ LedgerKept ]_vars
    /\ [](csv # << >> =>
             /\ csv[1] = HeaderRow
             /\ \A k \in 2..Len(csv) : csv[k].kind = "data")
    /\ [][ C19_WritesHeader =>
             /\ pc \in { "not_started", "stopped", "crashed" }
             /\ ~csv_exists
             /\ csv' = << HeaderRow >> ]_vars
    /\ [](Running => csv_exists)

---------------------------------------------------------------------------
(* C20 *)

\* The step is the end of the loop body for an event whose record has not
\* been written: the append failed or the block time could not be
\* converted.
C20_RecordNotWritten ==
    /\ pc = "parsed"
    /\ ~transfer.none
    /\ last_step' = "marked"
    /\ csv' = csv

\* C20: no detected transfer is lost.  When the detector has returned an
\* event for a signature and the signature is marked processed, the ledger
\* holds a record of that signature; an event whose record could not be
\* written leaves its signature unmarked.
C20_NoDetectedTransferLost ==
    /\ []((last_step = "marked" /\ ~transfer.none) => LedgerRows(signature) # {})
    /\ [][ C20_RecordNotWritten =>
             (signature \notin processed_signatures'
                /\ signature \notin written_ever') ]_vars

---------------------------------------------------------------------------
(* C21 *)

\* The step attempts a notification.
C21_Notifies == webhooks' # webhooks

\* The number of notifications in `calls` that carry the signature sig.
CallsOf(calls, sig) ==
    Cardinality({ k \in 1..Len(calls) : calls[k].signature = sig })

\* C21: a notification is attempted only in the step that has appended
\* the ledger record of the same identifier, and once per record: the
\* notifications that carry a signature are never more than the records
\* of that signature in the ledger; the end of a loop body whose detector
\* returned no event, or whose record was not written, attempts no
\* notification.
C21_NotificationAfterRecord ==
    /\ [](\A k \in 1..Len(webhooks) :
             CallsOf(webhooks, webhooks[k].signature)
                <= Cardinality(LedgerRows(webhooks[k].signature)))
    /\ [][ C21_Notifies =>
             /\ pc = "parsed"
             /\ ~transfer.none
             /\ csv' = Append(csv, CsvRow(transfer))
             /\ webhooks' = Append(webhooks, WebhookCall(transfer)) ]_vars
    /\ [][ (pc = "parsed" /\ (transfer.none \/ csv' = csv))
             => webhooks' = webhooks ]_vars

\* An event whose ledger append failed has been marked without a
\* notification, after another event had been recorded and notified.
C21_Witness ==
    /\ last_step = "marked"
    /\ ~transfer.none
    /\ ~transfer.timestamp_null
    /\ LedgerRows(signature) = {}
    /\ Len(webhooks) >= 1
    /\ LedgerRows(webhooks[1].signature) # {}
    /\ \A k \in 1..Len(webhooks) : webhooks[k].signature # signature

====
